---- MODULE Spec2Model ----
(***************************************************************************)
(* The transactional kernel of pg-core: TransactionManager, CommitTable,   *)
(* MVCCEngine, SimpleStorage, ConflictDetector and the DatabaseService     *)
(* that orchestrates them.  Every operation of DatabaseService is one      *)
(* action; it runs to completion (the engine is synchronous).              *)
(***************************************************************************)
EXTENDS Integers, Sequences, FiniteSets, TLC

\* ------------------------------------------------------------------ bounds
\* begin() is called at most MaxTxn times
MaxTxn == 4
\* versions held at once: the rows of the store plus the rows buffered by the
\* active transactions
MaxRows == 5

\* ------------------------------------------------------------------ inputs
Keys == {"k1"}
Fields == {"a", "b"}
\* a payload maps every field to a value; Absent marks a field the object lacks
Absent == 0
\* The payload is opaque to the engine.  The client stamps every write with a
\* number that names the writer and the position of the write in its buffer,
\* so that no two writes carry the same payload: an insert sets both fields,
\* an update only field a.
Stamp(txn, n) == 10 * txn + n
InsertInputs(txn, n) == { [a |-> Stamp(txn, n), b |-> Stamp(txn, n)] }
UpdateInputs(txn, n) == { [a |-> Stamp(txn, n), b |-> Absent] }
\* the keys argument of select: one listed key, or undefined (NoKeys)
NoKeys == <<"undefined">>
SelectInputs == { <<k>> : k \in Keys } \cup { NoKeys }

\* xmax of a version nobody deleted (transaction ids start at 1)
Null == 0
\* "no key": detectConflict's null result
NoKey == "null"

VARIABLES
  nextTxnId,    \* TransactionManager.nextTxnId
  activeTxns,   \* TransactionManager.activeTxns : Map<number, Transaction>
  committed,    \* CommitTable.committed
  aborted,      \* CommitTable.aborted
  data,         \* SimpleStorage.data : Map<string, VersionedRow[]>
  lastOp,       \* the operation that ran last and the error it threw
  ended,        \* the Transaction objects of committed and aborted transactions
                \* that the client still holds and calls the service with
  metrics       \* dbMetrics: the counters and the gauge of the transaction
                \* life cycle, followed by the metered client only

vars == <<nextTxnId, activeTxns, committed, aborted, data, lastOp, ended, metrics>>

\* ------------------------------------------------------- JavaScript Map
\* A Map is the sequence of its entries [key, val] in insertion order.
MapHas(m, k) == \E i \in 1..Len(m) : m[i].key = k
MapIndex(m, k) == CHOOSE i \in 1..Len(m) : m[i].key = k
MapGet(m, k) == m[MapIndex(m, k)].val
MapSet(m, k, v) ==
  IF MapHas(m, k) THEN [m EXCEPT ![MapIndex(m, k)].val = v]
  ELSE Append(m, [key |-> k, val |-> v])
MapKeys(m) == [i \in 1..Len(m) |-> m[i].key]

RECURSIVE SeqFilter(_, _)
\* Array.prototype.filter with the set of kept elements' indexes given by keep
SeqFilter(s, keep) ==
  IF s = <<>> THEN <<>>
  ELSE LET rest == SeqFilter(Tail(s), [i \in 1..(Len(s) - 1) |-> keep[i + 1]])
       IN IF keep[1] THEN <<Head(s)>> \o rest ELSE rest

Min(S) == CHOOSE x \in S : \A y \in S : x <= y

\* ------------------------------------------------------------ CommitTable
isCommitted(txnId) == txnId \in committed
isAborted(txnId) == txnId \in aborted
isInProgress(txnId) == txnId \notin committed /\ txnId \notin aborted

\* ------------------------------------------------------------- MVCCEngine
\* a variant of isTransactionVisible that does not consult the snapshot's active set
isTransactionVisibleIgnoringActive(txnId, snapshot) ==
  IF txnId >= snapshot.xmax THEN FALSE
  ELSE isCommitted(txnId)

isTransactionVisible(txnId, snapshot) ==
  IF txnId >= snapshot.xmax THEN FALSE
  ELSE IF txnId \in snapshot.activeTxns THEN FALSE
  ELSE isCommitted(txnId)

\* a variant of isVisible that decides by id order and commit status alone,
\* without asking whether the creator was active when the snapshot was taken
isVisibleByIdOrder(row, snapshot) ==
  IF row.xmin = snapshot.myTxnId THEN TRUE
  ELSE IF row.xmin >= snapshot.xmax THEN FALSE
  ELSE IF ~isCommitted(row.xmin) THEN FALSE
  ELSE IF row.xmax = Null THEN TRUE
  ELSE IF row.xmax = snapshot.myTxnId THEN FALSE
  ELSE IF row.xmax \in snapshot.activeTxns THEN TRUE
  ELSE IF row.xmax >= snapshot.xmax THEN TRUE
  ELSE IF ~isCommitted(row.xmax) THEN TRUE
  ELSE FALSE

isVisible(row, snapshot) ==
  IF row.xmin = snapshot.myTxnId THEN row.xmax # snapshot.myTxnId
  ELSE IF ~isTransactionVisible(row.xmin, snapshot) THEN FALSE
  ELSE IF row.xmax = Null THEN TRUE
  ELSE ~isTransactionVisible(row.xmax, snapshot)

\* a variant of canGarbageCollect that forgets the bound on the creator
canGarbageCollectByXmax(row, globalOldestXmin) ==
  IF row.xmax = Null THEN FALSE
  ELSE row.xmax < globalOldestXmin

\* a variant of canGarbageCollect that forgets the bound on the deleter
canGarbageCollectByXmin(row, globalOldestXmin) ==
  IF row.xmax = Null THEN FALSE
  ELSE row.xmin < globalOldestXmin

canGarbageCollect(row, globalOldestXmin) ==
  IF row.xmax = Null THEN FALSE
  ELSE row.xmin < globalOldestXmin /\ row.xmax < globalOldestXmin

\* ---------------------------------------------------------- SimpleStorage
getAllVersions(store, key) == IF MapHas(store, key) THEN MapGet(store, key) ELSE <<>>
getAllKeys(store) == MapKeys(store)

\* versions.findIndex(v => v.xmin === row.xmin && v.xmax === null), 0 for -1
TombstoneTarget(versions, row) ==
  LET hits == { i \in 1..Len(versions) :
                  versions[i].xmin = row.xmin /\ versions[i].xmax = Null }
  IN IF hits = {} THEN 0 ELSE Min(hits)

\* a variant of insert that always appends
storageInsertAppending(store, row) ==
  MapSet(store, row.key, Append(getAllVersions(store, row.key), row))

storageInsert(store, row) ==
  LET versions == getAllVersions(store, row.key)
      index == IF row.xmax # Null THEN TombstoneTarget(versions, row) ELSE 0
  IN IF index # 0
     THEN MapSet(store, row.key, [versions EXCEPT ![index] = row])
     ELSE MapSet(store, row.key, Append(versions, row))

\* a variant of garbageCollect that keeps the entry of a key it has emptied
storageGarbageCollectKeepingKeys(store, globalOldestXmin) ==
  LET kept(versions) ==
        SeqFilter(versions, [i \in 1..Len(versions) |->
                               ~canGarbageCollect(versions[i], globalOldestXmin)])
  IN [i \in 1..Len(store) |-> [key |-> store[i].key, val |-> kept(store[i].val)]]

storageGarbageCollect(store, globalOldestXmin) ==
  LET kept(versions) ==
        SeqFilter(versions, [i \in 1..Len(versions) |->
                               ~canGarbageCollect(versions[i], globalOldestXmin)])
      swept == [i \in 1..Len(store) |->
                  [key |-> store[i].key, val |-> kept(store[i].val)]]
  IN SeqFilter(swept, [i \in 1..Len(swept) |-> swept[i].val # <<>>])

\* ------------------------------------------------------------ Transaction
\* A Transaction is [id, snapshot, writeSet].  Its readSet is left out: addRead
\* only adds to it and nothing in the engine reads it.  The field
\* committedAtBegin is history, not program state: the transactions that had
\* committed when this one began, which is what "concurrent" is measured against.
addWrite(txn, key, row) ==
  [txn EXCEPT !.writeSet =
     MapSet(@, key, Append(IF MapHas(@, key) THEN MapGet(@, key) ELSE <<>>, row))]

RECURSIVE FlattenRows(_)
\* the rows of a write set in the order commit applies them
FlattenRows(writes) ==
  IF writes = <<>> THEN <<>> ELSE Head(writes).val \o FlattenRows(Tail(writes))

\* ----------------------------------------------------- TransactionManager
\* a variant of getGlobalOldestXmin that returns the smallest active id
getGlobalOldestXminByActiveId(active, next) ==
  IF DOMAIN active = {} THEN next
  ELSE Min(DOMAIN active)

\* a variant of getGlobalOldestXmin that takes the counter whatever is active
getGlobalOldestXminOfCounter(active, next) == next

\* a variant of getGlobalOldestXmin that takes the largest snapshot.xmin
getGlobalOldestXminOfYoungest(active, next) ==
  IF DOMAIN active = {} THEN next
  ELSE CHOOSE x \in { active[t].snapshot.xmin : t \in DOMAIN active } :
         \A t \in DOMAIN active : active[t].snapshot.xmin <= x

getGlobalOldestXmin(active, next) ==
  IF DOMAIN active = {} THEN next
  ELSE Min({ active[t].snapshot.xmin : t \in DOMAIN active })

\* ------------------------------------------------------- ConflictDetector
\* a variant of KeyConflicts that measures "after my snapshot" against snapshot.xmax
KeyConflictsFromXmax(txn, key) ==
  LET versions == getAllVersions(data, key)
  IN \E i \in 1..Len(versions) :
       /\ versions[i].xmin # txn.id
       /\ isCommitted(versions[i].xmin)
       /\ versions[i].xmin >= txn.snapshot.xmax

KeyConflicts(txn, key) ==
  LET versions == getAllVersions(data, key)
  IN \E i \in 1..Len(versions) :
       /\ versions[i].xmin # txn.id
       /\ isCommitted(versions[i].xmin)
       /\ versions[i].xmin >= txn.snapshot.xmin

\* a variant of detectConflict that examines every key of the store
detectConflictOnEveryKey(txn) ==
  LET keys == getAllKeys(data)
      hits == { i \in 1..Len(keys) : KeyConflicts(txn, keys[i]) }
  IN IF hits = {} THEN NoKey ELSE keys[Min(hits)]

\* a variant of detectConflict that fails a transaction when any key of the
\* store has a version committed after its snapshot was taken
detectConflictOnNewerVersions(txn) ==
  LET keys == getAllKeys(data)
      hits == { i \in 1..Len(keys) :
                  \E j \in 1..Len(getAllVersions(data, keys[i])) :
                    /\ getAllVersions(data, keys[i])[j].xmin # txn.id
                    /\ isCommitted(getAllVersions(data, keys[i])[j].xmin)
                    /\ getAllVersions(data, keys[i])[j].xmin >= txn.snapshot.xmax }
  IN IF hits = {} THEN NoKey ELSE keys[Min(hits)]

detectConflict(txn) ==
  LET keys == MapKeys(txn.writeSet)
      hits == { i \in 1..Len(keys) : KeyConflicts(txn, keys[i]) }
  IN IF hits = {} THEN NoKey ELSE keys[Min(hits)]

\* -------------------------------------------------------- DatabaseService
\* versions.find(row => mvcc.isVisible(row, snapshot)): its index, 0 if none
FirstVisible(versions, snapshot) ==
  LET hits == { i \in 1..Len(versions) : isVisible(versions[i], snapshot) }
  IN IF hits = {} THEN 0 ELSE Min(hits)

\* { ...a, ...b }
Merge(a, b) == [f \in Fields |-> IF b[f] # Absent THEN b[f] ELSE a[f]]

\* The record of a call: the operation, the Transaction object it was given
\* (for begin, the one it returned), the key argument, the error it threw and
\* the number of versions its garbage collection pass removed.
NoTxn == [id |-> 0]
Op(op, txn, key, err, collected) ==
  [op |-> op, txn |-> txn, key |-> key, err |-> err, collected |-> collected]

RECURSIVE CountRows(_)
CountRows(store) ==
  IF store = <<>> THEN 0 ELSE Len(Head(store).val) + CountRows(Tail(store))

\* activeTxns.delete(id)
Without(active, id) == [t \in (DOMAIN active) \ {id} |-> active[t]]

RECURSIVE SumOver(_, _)
SumOver(f, S) ==
  IF S = {} THEN 0
  ELSE LET x == CHOOSE y \in S : TRUE IN f[x] + SumOver(f, S \ {x})

\* the number of rows in the write buffer of active transaction t
Buffered(t) == Len(FlattenRows(activeTxns[t].writeSet))

\* the versions the engine holds: stored ones and ones buffered by active transactions
TotalRows ==
  CountRows(data)
  + SumOver([t \in DOMAIN activeTxns |-> Buffered(t)], DOMAIN activeTxns)

Init ==
  /\ nextTxnId = 1
  /\ activeTxns = <<>>
  /\ committed = {}
  /\ aborted = {}
  /\ data = <<>>
  /\ lastOp = Op("new", NoTxn, NoKey, "none", 0)
  /\ ended = <<>>
  /\ metrics = [transactionsTotal |-> 0, transactionsCommitted |-> 0,
                transactionsAborted |-> 0, activeTransactions |-> 0]

\* a variant of NewSnapshot that takes every earlier id for active
NewSnapshotOfEarlierIds(txnId) ==
  LET activeBefore == 1..(txnId - 1)
      xmin == IF activeBefore = {} THEN txnId ELSE Min(activeBefore)
  IN [xmin |-> xmin, xmax |-> txnId, activeTxns |-> activeBefore, myTxnId |-> txnId]

\* a variant of NewSnapshot that counts the new transaction among the active ones
NewSnapshotIncludingSelf(txnId) ==
  LET activeBefore == { id \in DOMAIN activeTxns : id < txnId } \cup {txnId}
      xmin == Min(activeBefore)
  IN [xmin |-> xmin, xmax |-> txnId, activeTxns |-> activeBefore, myTxnId |-> txnId]

\* the snapshot begin() builds for the transaction that gets id txnId
NewSnapshot(txnId) ==
  LET activeBefore == { id \in DOMAIN activeTxns : id < txnId }
      xmin == IF activeBefore = {} THEN txnId ELSE Min(activeBefore)
  IN [xmin |-> xmin, xmax |-> txnId, activeTxns |-> activeBefore, myTxnId |-> txnId]

\* a variant of begin that numbers a transaction after the largest active id
beginAfterLargestActive ==
  /\ nextTxnId <= MaxTxn
  /\ LET txnId == IF DOMAIN activeTxns = {} THEN 1
                  ELSE 1 + (CHOOSE x \in DOMAIN activeTxns : \A y \in DOMAIN activeTxns : y <= x)
         txn == [id |-> txnId, snapshot |-> NewSnapshot(txnId), writeSet |-> <<>>,
                 committedAtBegin |-> committed]
     IN /\ nextTxnId' = nextTxnId + 1
        /\ activeTxns' = [t \in (DOMAIN activeTxns) \cup {txnId} |->
                             IF t = txnId THEN txn ELSE activeTxns[t]]
        /\ lastOp' = Op("begin", txn, NoKey, "none", 0)
  /\ UNCHANGED <<committed, aborted, data>>

begin ==
  /\ nextTxnId <= MaxTxn
  /\ LET txnId == nextTxnId
         txn == [id |-> txnId, snapshot |-> NewSnapshot(txnId), writeSet |-> <<>>,
                 committedAtBegin |-> committed]
     IN /\ nextTxnId' = nextTxnId + 1
        /\ activeTxns' = [t \in (DOMAIN activeTxns) \cup {txnId} |->
                             IF t = txnId THEN txn ELSE activeTxns[t]]
        /\ lastOp' = Op("begin", txn, NoKey, "none", 0)
  /\ UNCHANGED <<committed, aborted, data>>

\* a variant of insert that also writes the row to the store
insertWritingThrough(t, key, d) ==
  /\ TotalRows + 2 <= MaxRows
  /\ LET row == [key |-> key, data |-> d, xmin |-> activeTxns[t].id, xmax |-> Null]
     IN /\ activeTxns' = [activeTxns EXCEPT ![t] = addWrite(@, key, row)]
        /\ data' = storageInsert(data, row)
  /\ lastOp' = Op("insert", activeTxns[t], key, "none", 0)
  /\ UNCHANGED <<nextTxnId, committed, aborted>>

insert(t, key, d) ==
  /\ TotalRows + 1 <= MaxRows
  /\ LET row == [key |-> key, data |-> d, xmin |-> activeTxns[t].id, xmax |-> Null]
     IN activeTxns' = [activeTxns EXCEPT ![t] = addWrite(@, key, row)]
  /\ lastOp' = Op("insert", activeTxns[t], key, "none", 0)
  /\ UNCHANGED <<nextTxnId, committed, aborted, data>>

\* a variant of update that also writes its two rows to the store
updateWritingThrough(t, key, d) ==
  LET txn == activeTxns[t]
      versions == getAllVersions(data, key)
      index == FirstVisible(versions, txn.snapshot)
  IN IF versions = <<>> THEN
       /\ lastOp' = Op("update", txn, key, "KeyNotFound", 0)
       /\ UNCHANGED <<nextTxnId, activeTxns, committed, aborted, data>>
     ELSE IF index = 0 THEN
       /\ lastOp' = Op("update", txn, key, "KeyNotVisible", 0)
       /\ UNCHANGED <<nextTxnId, activeTxns, committed, aborted, data>>
     ELSE
       /\ TotalRows + 3 <= MaxRows
       /\ LET visible == versions[index]
              oldVersionTombstone == [visible EXCEPT !.xmax = txn.id]
              newRow == [key |-> key, data |-> Merge(visible.data, d),
                         xmin |-> txn.id, xmax |-> Null]
          IN /\ activeTxns' = [activeTxns EXCEPT ![t] =
                           addWrite(addWrite(@, key, oldVersionTombstone), key, newRow)]
             /\ data' = storageInsert(storageInsert(data, oldVersionTombstone), newRow)
       /\ lastOp' = Op("update", txn, key, "none", 0)
       /\ UNCHANGED <<nextTxnId, committed, aborted>>

\* a variant of update whose tombstone carries the two stamps exchanged
updateSwappingStamps(t, key, d) ==
  LET txn == activeTxns[t]
      versions == getAllVersions(data, key)
      index == FirstVisible(versions, txn.snapshot)
  IN IF versions = <<>> THEN
       /\ lastOp' = Op("update", txn, key, "KeyNotFound", 0)
       /\ UNCHANGED <<nextTxnId, activeTxns, committed, aborted, data>>
     ELSE IF index = 0 THEN
       /\ lastOp' = Op("update", txn, key, "KeyNotVisible", 0)
       /\ UNCHANGED <<nextTxnId, activeTxns, committed, aborted, data>>
     ELSE
       /\ TotalRows + 2 <= MaxRows
       /\ LET visible == versions[index]
              oldVersionTombstone == [visible EXCEPT !.xmin = txn.id, !.xmax = visible.xmin]
              newRow == [key |-> key, data |-> Merge(visible.data, d),
                         xmin |-> txn.id, xmax |-> Null]
          IN activeTxns' = [activeTxns EXCEPT ![t] =
                        addWrite(addWrite(@, key, oldVersionTombstone), key, newRow)]
       /\ lastOp' = Op("update", txn, key, "none", 0)
       /\ UNCHANGED <<nextTxnId, committed, aborted, data>>

update(t, key, d) ==
  LET txn == activeTxns[t]
      versions == getAllVersions(data, key)
      index == FirstVisible(versions, txn.snapshot)
  IN IF versions = <<>> THEN
       /\ lastOp' = Op("update", txn, key, "KeyNotFound", 0)
       /\ UNCHANGED <<nextTxnId, activeTxns, committed, aborted, data>>
     ELSE IF index = 0 THEN
       /\ lastOp' = Op("update", txn, key, "KeyNotVisible", 0)
       /\ UNCHANGED <<nextTxnId, activeTxns, committed, aborted, data>>
     ELSE
       /\ TotalRows + 2 <= MaxRows
       /\ LET visible == versions[index]
              oldVersionTombstone == [visible EXCEPT !.xmax = txn.id]
              newRow == [key |-> key, data |-> Merge(visible.data, d),
                         xmin |-> txn.id, xmax |-> Null]
          IN activeTxns' = [activeTxns EXCEPT ![t] =
                        addWrite(addWrite(@, key, oldVersionTombstone), key, newRow)]
       /\ lastOp' = Op("update", txn, key, "none", 0)
       /\ UNCHANGED <<nextTxnId, committed, aborted, data>>

\* a variant of delete whose tombstone carries the two stamps exchanged
deleteSwappingStamps(t, key) ==
  LET txn == activeTxns[t]
      versions == getAllVersions(data, key)
      index == FirstVisible(versions, txn.snapshot)
  IN IF versions = <<>> THEN
       /\ lastOp' = Op("delete", txn, key, "KeyNotFound", 0)
       /\ UNCHANGED <<nextTxnId, activeTxns, committed, aborted, data>>
     ELSE IF index = 0 THEN
       /\ lastOp' = Op("delete", txn, key, "KeyNotVisible", 0)
       /\ UNCHANGED <<nextTxnId, activeTxns, committed, aborted, data>>
     ELSE
       /\ TotalRows + 1 <= MaxRows
       /\ LET visible == versions[index]
              tombstone == [key |-> key, data |-> visible.data,
                            xmin |-> txn.id, xmax |-> visible.xmin]
          IN activeTxns' = [activeTxns EXCEPT ![t] = addWrite(@, key, tombstone)]
       /\ lastOp' = Op("delete", txn, key, "none", 0)
       /\ UNCHANGED <<nextTxnId, committed, aborted, data>>

\* a variant of delete that marks the stored version in place
deleteMarkingStore(t, key) ==
  LET txn == activeTxns[t]
      versions == getAllVersions(data, key)
      index == FirstVisible(versions, txn.snapshot)
  IN IF versions = <<>> THEN
       /\ lastOp' = Op("delete", txn, key, "KeyNotFound", 0)
       /\ UNCHANGED <<nextTxnId, activeTxns, committed, aborted, data>>
     ELSE IF index = 0 THEN
       /\ lastOp' = Op("delete", txn, key, "KeyNotVisible", 0)
       /\ UNCHANGED <<nextTxnId, activeTxns, committed, aborted, data>>
     ELSE
       /\ TotalRows + 1 <= MaxRows
       /\ LET visible == versions[index]
              tombstone == [key |-> key, data |-> visible.data,
                            xmin |-> visible.xmin, xmax |-> txn.id]
          IN /\ activeTxns' = [activeTxns EXCEPT ![t] = addWrite(@, key, tombstone)]
             /\ data' = storageInsert(data, tombstone)
       /\ lastOp' = Op("delete", txn, key, "none", 0)
       /\ UNCHANGED <<nextTxnId, committed, aborted>>

\* a variant of delete that aborts the transaction when the key is not visible
deleteAbortingOnFailure(t, key) ==
  LET txn == activeTxns[t]
      versions == getAllVersions(data, key)
      index == FirstVisible(versions, txn.snapshot)
  IN IF versions = <<>> THEN
       /\ lastOp' = Op("delete", txn, key, "KeyNotFound", 0)
       /\ UNCHANGED <<nextTxnId, activeTxns, committed, aborted, data>>
     ELSE IF index = 0 THEN
       /\ lastOp' = Op("delete", txn, key, "KeyNotVisible", 0)
       /\ aborted' = aborted \cup {txn.id}
       /\ activeTxns' = Without(activeTxns, txn.id)
       /\ UNCHANGED <<nextTxnId, committed, data>>
     ELSE
       /\ TotalRows + 1 <= MaxRows
       /\ LET visible == versions[index]
              tombstone == [key |-> key, data |-> visible.data,
                            xmin |-> visible.xmin, xmax |-> txn.id]
          IN activeTxns' = [activeTxns EXCEPT ![t] = addWrite(@, key, tombstone)]
       /\ lastOp' = Op("delete", txn, key, "none", 0)
       /\ UNCHANGED <<nextTxnId, committed, aborted, data>>

delete(t, key) ==
  LET txn == activeTxns[t]
      versions == getAllVersions(data, key)
      index == FirstVisible(versions, txn.snapshot)
  IN IF versions = <<>> THEN
       /\ lastOp' = Op("delete", txn, key, "KeyNotFound", 0)
       /\ UNCHANGED <<nextTxnId, activeTxns, committed, aborted, data>>
     ELSE IF index = 0 THEN
       /\ lastOp' = Op("delete", txn, key, "KeyNotVisible", 0)
       /\ UNCHANGED <<nextTxnId, activeTxns, committed, aborted, data>>
     ELSE
       /\ TotalRows + 1 <= MaxRows
       /\ LET visible == versions[index]
              tombstone == [key |-> key, data |-> visible.data,
                            xmin |-> visible.xmin, xmax |-> txn.id]
          IN activeTxns' = [activeTxns EXCEPT ![t] = addWrite(@, key, tombstone)]
       /\ lastOp' = Op("delete", txn, key, "none", 0)
       /\ UNCHANGED <<nextTxnId, committed, aborted, data>>

\* { key: visible.key, ...visible.data }
Flatten(row) ==
  [f \in Fields \cup {"key"} |-> IF f = "key" THEN row.key ELSE row.data[f]]

RECURSIVE SelectRowsNewestFirst(_, _, _)
\* a variant of SelectRows that puts each record in front of the earlier ones
SelectRowsNewestFirst(store, snapshot, keysToScan) ==
  IF keysToScan = <<>> THEN <<>>
  ELSE LET versions == getAllVersions(store, Head(keysToScan))
           index == FirstVisible(versions, snapshot)
           rest == SelectRowsNewestFirst(store, snapshot, Tail(keysToScan))
       IN IF index # 0 THEN rest \o <<Flatten(versions[index])>> ELSE rest

RECURSIVE SelectRows(_, _, _)
\* the results array select builds for the keys it scans, over a store
SelectRows(store, snapshot, keysToScan) ==
  IF keysToScan = <<>> THEN <<>>
  ELSE LET versions == getAllVersions(store, Head(keysToScan))
           index == FirstVisible(versions, snapshot)
           rest == SelectRows(store, snapshot, Tail(keysToScan))
       IN IF index # 0 THEN <<Flatten(versions[index])>> \o rest ELSE rest

KeysToScan(keys) == IF keys = NoKeys THEN getAllKeys(data) ELSE keys

\* what select(txn, keys) returns in the current state
selectResult(t, keys) == SelectRows(data, activeTxns[t].snapshot, KeysToScan(keys))

select(t, keys) ==
  /\ lastOp' = Op("select", activeTxns[t], keys, "none", 0)
  /\ UNCHANGED <<nextTxnId, activeTxns, committed, aborted, data>>

RECURSIVE ApplyWrites(_, _)
\* for (const row of rows) storage.insert(row), over every entry of the write set
ApplyWrites(store, rows) ==
  IF rows = <<>> THEN store
  ELSE ApplyWrites(storageInsert(store, Head(rows)), Tail(rows))

\* a variant of commit that applies the buffered rows before it reports the conflict
commitApplyingOnConflict(t) ==
  LET txn == activeTxns[t]
      conflict == detectConflict(txn)
  IN IF conflict # NoKey THEN
       /\ aborted' = aborted \cup {txn.id}
       /\ activeTxns' = Without(activeTxns, txn.id)
       /\ data' = ApplyWrites(data, FlattenRows(txn.writeSet))
       /\ lastOp' = Op("commit", txn, conflict, "WriteWriteConflict", 0)
       /\ UNCHANGED <<nextTxnId, committed>>
     ELSE
       /\ committed' = committed \cup {txn.id}
       /\ activeTxns' = Without(activeTxns, txn.id)
       /\ LET written == ApplyWrites(data, FlattenRows(txn.writeSet))
              oldestXmin == getGlobalOldestXmin(Without(activeTxns, txn.id), nextTxnId)
          IN /\ data' = storageGarbageCollect(written, oldestXmin)
             /\ lastOp' = Op("commit", txn, NoKey, "none",
                             CountRows(written) - CountRows(data'))
       /\ UNCHANGED <<nextTxnId, aborted>>

commit(t) ==
  LET txn == activeTxns[t]
      conflict == detectConflict(txn)
  IN IF conflict # NoKey THEN
       \* this.abort(txn); throw new Error(conflict)
       /\ aborted' = aborted \cup {txn.id}
       /\ activeTxns' = Without(activeTxns, txn.id)
       /\ lastOp' = Op("commit", txn, conflict, "WriteWriteConflict", 0)
       /\ UNCHANGED <<nextTxnId, committed, data>>
     ELSE
       /\ committed' = committed \cup {txn.id}
       /\ activeTxns' = Without(activeTxns, txn.id)
       /\ LET written == ApplyWrites(data, FlattenRows(txn.writeSet))
              oldestXmin == getGlobalOldestXmin(Without(activeTxns, txn.id), nextTxnId)
          IN /\ data' = storageGarbageCollect(written, oldestXmin)
             /\ lastOp' = Op("commit", txn, NoKey, "none",
                             CountRows(written) - CountRows(data'))
       /\ UNCHANGED <<nextTxnId, aborted>>

\* a variant of abort that writes the buffered rows to the store
abortApplyingWrites(t) ==
  /\ aborted' = aborted \cup {activeTxns[t].id}
  /\ activeTxns' = Without(activeTxns, activeTxns[t].id)
  /\ data' = ApplyWrites(data, FlattenRows(activeTxns[t].writeSet))
  /\ lastOp' = Op("abort", activeTxns[t], NoKey, "none", 0)
  /\ UNCHANGED <<nextTxnId, committed>>

\* a variant of abort that leaves the registry as it was
abortWithoutMarking(t) ==
  /\ activeTxns' = Without(activeTxns, activeTxns[t].id)
  /\ lastOp' = Op("abort", activeTxns[t], NoKey, "none", 0)
  /\ UNCHANGED <<nextTxnId, committed, aborted, data>>

abort(t) ==
  /\ aborted' = aborted \cup {activeTxns[t].id}
  /\ activeTxns' = Without(activeTxns, activeTxns[t].id)
  /\ lastOp' = Op("abort", activeTxns[t], NoKey, "none", 0)
  /\ UNCHANGED <<nextTxnId, committed, data>>

garbageCollect ==
  /\ data' = storageGarbageCollect(data, getGlobalOldestXmin(activeTxns, nextTxnId))
  /\ lastOp' = Op("garbageCollect", NoTxn, NoKey, "none",
                  CountRows(data) - CountRows(data'))
  /\ UNCHANGED <<nextTxnId, activeTxns, committed, aborted>>

\* The client drives transactions that are ACTIVE (spec 4.8: no state other
\* than ACTIVE permits operations) and drops the object of a transaction that
\* has ended.
Next ==
  \/ begin /\ UNCHANGED <<ended, metrics>>
  \/ \E t \in DOMAIN activeTxns, k \in Keys :
       \E d \in InsertInputs(t, Buffered(t)) : insert(t, k, d) /\ UNCHANGED <<ended, metrics>>
  \/ \E t \in DOMAIN activeTxns, k \in Keys :
       \E d \in UpdateInputs(t, Buffered(t)) : update(t, k, d) /\ UNCHANGED <<ended, metrics>>
  \/ \E t \in DOMAIN activeTxns, k \in Keys : delete(t, k) /\ UNCHANGED <<ended, metrics>>
  \/ \E t \in DOMAIN activeTxns, keys \in SelectInputs : select(t, keys) /\ UNCHANGED <<ended, metrics>>
  \/ \E t \in DOMAIN activeTxns : commit(t) /\ UNCHANGED <<ended, metrics>>
  \/ \E t \in DOMAIN activeTxns : abort(t) /\ UNCHANGED <<ended, metrics>>
  \/ garbageCollect /\ UNCHANGED <<ended, metrics>>

Spec == Init /\ [][Next]_vars

\* ------------------------------------------- calls on ended transactions
\* A Transaction object carries no status and no operation of DatabaseService
\* tests whether its argument is in the active table, so the service runs the
\* same code when it is handed the object of a transaction that has committed
\* or aborted.  The operations below are that code on an object held in ended:
\* activeTxns.delete(txn.id) then removes nothing.

\* begin() is called at most MaxEndedTxn times when ended objects are reused
MaxEndedTxn == 2
\* versions held at once when ended objects are reused: stored rows plus the
\* rows buffered in active and in ended Transaction objects
MaxEndedRows == 4

EndedBuffered(t) == Len(FlattenRows(ended[t].writeSet))

HeldRows ==
  TotalRows + SumOver([t \in DOMAIN ended |-> EndedBuffered(t)], DOMAIN ended)

insertEnded(t, key, d) ==
  LET txn == ended[t]
      row == [key |-> key, data |-> d, xmin |-> txn.id, xmax |-> Null]
  IN /\ ended' = [ended EXCEPT ![t] = addWrite(@, key, row)]
     /\ lastOp' = Op("insert", txn, key, "none", 0)
     /\ UNCHANGED <<nextTxnId, activeTxns, committed, aborted, data>>

updateEnded(t, key, d) ==
  LET txn == ended[t]
      versions == getAllVersions(data, key)
      index == FirstVisible(versions, txn.snapshot)
  IN IF versions = <<>> THEN
       /\ lastOp' = Op("update", txn, key, "KeyNotFound", 0)
       /\ UNCHANGED <<nextTxnId, activeTxns, committed, aborted, data, ended>>
     ELSE IF index = 0 THEN
       /\ lastOp' = Op("update", txn, key, "KeyNotVisible", 0)
       /\ UNCHANGED <<nextTxnId, activeTxns, committed, aborted, data, ended>>
     ELSE
       /\ LET visible == versions[index]
              oldVersionTombstone == [visible EXCEPT !.xmax = txn.id]
              newRow == [key |-> key, data |-> Merge(visible.data, d),
                         xmin |-> txn.id, xmax |-> Null]
          IN ended' = [ended EXCEPT ![t] =
                        addWrite(addWrite(@, key, oldVersionTombstone), key, newRow)]
       /\ lastOp' = Op("update", txn, key, "none", 0)
       /\ UNCHANGED <<nextTxnId, activeTxns, committed, aborted, data>>

deleteEnded(t, key) ==
  LET txn == ended[t]
      versions == getAllVersions(data, key)
      index == FirstVisible(versions, txn.snapshot)
  IN IF versions = <<>> THEN
       /\ lastOp' = Op("delete", txn, key, "KeyNotFound", 0)
       /\ UNCHANGED <<nextTxnId, activeTxns, committed, aborted, data, ended>>
     ELSE IF index = 0 THEN
       /\ lastOp' = Op("delete", txn, key, "KeyNotVisible", 0)
       /\ UNCHANGED <<nextTxnId, activeTxns, committed, aborted, data, ended>>
     ELSE
       /\ LET visible == versions[index]
              tombstone == [key |-> key, data |-> visible.data,
                            xmin |-> visible.xmin, xmax |-> txn.id]
          IN ended' = [ended EXCEPT ![t] = addWrite(@, key, tombstone)]
       /\ lastOp' = Op("delete", txn, key, "none", 0)
       /\ UNCHANGED <<nextTxnId, activeTxns, committed, aborted, data>>

selectEnded(t, keys) ==
  /\ lastOp' = Op("select", ended[t], keys, "none", 0)
  /\ UNCHANGED <<nextTxnId, activeTxns, committed, aborted, data, ended>>

commitEnded(t) ==
  LET txn == ended[t]
      conflict == detectConflict(txn)
  IN IF conflict # NoKey THEN
       /\ aborted' = aborted \cup {txn.id}
       /\ lastOp' = Op("commit", txn, conflict, "WriteWriteConflict", 0)
       /\ UNCHANGED <<nextTxnId, activeTxns, committed, data, ended>>
     ELSE
       /\ committed' = committed \cup {txn.id}
       /\ LET written == ApplyWrites(data, FlattenRows(txn.writeSet))
              oldestXmin == getGlobalOldestXmin(activeTxns, nextTxnId)
          IN /\ data' = storageGarbageCollect(written, oldestXmin)
             /\ lastOp' = Op("commit", txn, NoKey, "none",
                             CountRows(written) - CountRows(data'))
       /\ UNCHANGED <<nextTxnId, activeTxns, aborted, ended>>

abortEnded(t) ==
  /\ aborted' = aborted \cup {ended[t].id}
  /\ lastOp' = Op("abort", ended[t], NoKey, "none", 0)
  /\ UNCHANGED <<nextTxnId, activeTxns, committed, data, ended>>

\* the client keeps the object of the transaction that commit or abort has ended
Retire ==
  ended' = IF lastOp'.op \in {"commit", "abort"}
           THEN [t \in (DOMAIN ended) \cup {lastOp'.txn.id} |->
                   IF t = lastOp'.txn.id THEN lastOp'.txn ELSE ended[t]]
           ELSE ended

\* the step stays within the bounds on begin() calls and on versions held
WithinEndedBounds == nextTxnId' <= MaxEndedTxn + 1 /\ HeldRows' <= MaxEndedRows

\* The client calls the service with any Transaction object it was given,
\* whether the transaction is active or has ended.
NextEnded ==
  \/ begin /\ Retire /\ WithinEndedBounds /\ UNCHANGED metrics
  \/ \E t \in DOMAIN activeTxns, k \in Keys :
       \E d \in InsertInputs(t, Buffered(t)) :
         insert(t, k, d) /\ Retire /\ WithinEndedBounds /\ UNCHANGED metrics
  \/ \E t \in DOMAIN activeTxns, k \in Keys :
       \E d \in UpdateInputs(t, Buffered(t)) :
         update(t, k, d) /\ Retire /\ WithinEndedBounds /\ UNCHANGED metrics
  \/ \E t \in DOMAIN activeTxns, k \in Keys :
       delete(t, k) /\ Retire /\ WithinEndedBounds /\ UNCHANGED metrics
  \/ \E t \in DOMAIN activeTxns, keys \in SelectInputs :
       select(t, keys) /\ Retire /\ WithinEndedBounds /\ UNCHANGED metrics
  \/ \E t \in DOMAIN activeTxns : commit(t) /\ Retire /\ WithinEndedBounds /\ UNCHANGED metrics
  \/ \E t \in DOMAIN activeTxns : abort(t) /\ Retire /\ WithinEndedBounds /\ UNCHANGED metrics
  \/ garbageCollect /\ Retire /\ WithinEndedBounds /\ UNCHANGED metrics
  \/ \E t \in DOMAIN ended, k \in Keys :
       \E d \in InsertInputs(t, EndedBuffered(t)) :
         insertEnded(t, k, d) /\ WithinEndedBounds /\ UNCHANGED metrics
  \/ \E t \in DOMAIN ended, k \in Keys :
       \E d \in UpdateInputs(t, EndedBuffered(t)) :
         updateEnded(t, k, d) /\ WithinEndedBounds /\ UNCHANGED metrics
  \/ \E t \in DOMAIN ended, k \in Keys : deleteEnded(t, k) /\ WithinEndedBounds /\ UNCHANGED metrics
  \/ \E t \in DOMAIN ended, keys \in SelectInputs : selectEnded(t, keys) /\ UNCHANGED metrics
  \/ \E t \in DOMAIN ended : commitEnded(t) /\ WithinEndedBounds /\ UNCHANGED metrics
  \/ \E t \in DOMAIN ended : abortEnded(t) /\ UNCHANGED metrics

SpecEnded == Init /\ [][NextEnded]_vars

\* --------------------------------------------------------- two keys
\* The same service driven by a client that works on two keys.
SkewKeys == {"k1", "k2"}
SkewSelectInputs ==
  { <<k>> : k \in SkewKeys } \cup { <<"k1", "k2">>, <<"k2", "k1">>, <<"k1", "k1">>, NoKeys }
\* begin() is called at most MaxSkewTxn times by the two-key client
MaxSkewTxn == 3
\* versions held at once by the two-key client: stored rows plus buffered rows
MaxSkewRows == 4

\* the step stays within the bounds of the two-key client
WithinSkewBounds == nextTxnId' <= MaxSkewTxn + 1 /\ TotalRows' <= MaxSkewRows

NextSkew ==
  \/ begin /\ UNCHANGED <<ended, metrics>> /\ WithinSkewBounds
  \/ \E t \in DOMAIN activeTxns, k \in SkewKeys :
       \E d \in InsertInputs(t, Buffered(t)) :
         insert(t, k, d) /\ UNCHANGED <<ended, metrics>> /\ WithinSkewBounds
  \/ \E t \in DOMAIN activeTxns, k \in SkewKeys :
       \E d \in UpdateInputs(t, Buffered(t)) :
         update(t, k, d) /\ UNCHANGED <<ended, metrics>> /\ WithinSkewBounds
  \/ \E t \in DOMAIN activeTxns, k \in SkewKeys :
       delete(t, k) /\ UNCHANGED <<ended, metrics>> /\ WithinSkewBounds
  \/ \E t \in DOMAIN activeTxns, keys \in SkewSelectInputs :
       select(t, keys) /\ UNCHANGED <<ended, metrics>>
  \/ \E t \in DOMAIN activeTxns : commit(t) /\ UNCHANGED <<ended, metrics>>
  \/ \E t \in DOMAIN activeTxns : abort(t) /\ UNCHANGED <<ended, metrics>>
  \/ garbageCollect /\ UNCHANGED <<ended, metrics>>

SpecSkew == Init /\ [][NextSkew]_vars

\* ------------------------------------------------- the engine on its own
\* MVCCEngine and CommitTable driven directly, as the unit tests drive them:
\* the caller marks ids committed in the registry and calls isVisible and
\* canGarbageCollect with rows and snapshots of its own making.

\* transaction ids the caller uses are 1..MaxEngineId
MaxEngineId == 3
EngineIds == 1..MaxEngineId
EngineRows ==
  { [key |-> "k1", data |-> [f \in Fields |-> 1], xmin |-> n, xmax |-> x] :
      n \in EngineIds, x \in EngineIds \cup {Null} }
EngineSnapshots ==
  { [xmin |-> 1, xmax |-> x, activeTxns |-> A, myTxnId |-> m] :
      x \in EngineIds, A \in SUBSET EngineIds, m \in EngineIds }
EngineHorizons == 1..(MaxEngineId + 1)

\* the record of a call of the engine: its arguments and the value it returned
Call(op, row, snapshot, horizon, result) ==
  [op |-> op, txn |-> NoTxn, key |-> NoKey, err |-> "none", collected |-> 0,
   row |-> row, snapshot |-> snapshot, horizon |-> horizon, result |-> result]

markCommitted(txnId) ==
  /\ committed' = committed \cup {txnId}
  /\ lastOp' = Op("markCommitted", NoTxn, NoKey, "none", 0)
  /\ UNCHANGED <<nextTxnId, activeTxns, aborted, data, ended, metrics>>

isVisibleCall(row, snapshot) ==
  /\ lastOp' = Call("isVisible", row, snapshot, 0, isVisible(row, snapshot))
  /\ UNCHANGED <<nextTxnId, activeTxns, committed, aborted, data, ended, metrics>>

canGarbageCollectCall(row, globalOldestXmin) ==
  /\ lastOp' = Call("canGarbageCollect", row, NewSnapshot(1), globalOldestXmin,
                    canGarbageCollect(row, globalOldestXmin))
  /\ UNCHANGED <<nextTxnId, activeTxns, committed, aborted, data, ended, metrics>>

NextEngine ==
  \/ \E txnId \in EngineIds : markCommitted(txnId)
  \/ \E row \in EngineRows, snapshot \in EngineSnapshots : isVisibleCall(row, snapshot)
  \/ \E row \in EngineRows, horizon \in EngineHorizons : canGarbageCollectCall(row, horizon)

SpecEngine == Init /\ [][NextEngine]_vars

\* ------------------------------------------------- the store on its own
\* SimpleStorage driven directly: the caller inserts rows of its own making,
\* live versions and tombstones, under two keys.

\* creator and deleter ids the caller uses are 1..MaxStorageId
MaxStorageId == 2
\* the caller stops appending when the store holds MaxStorageRows versions
MaxStorageRows == 3
StorageRows ==
  { [key |-> k, data |-> [f \in Fields |-> 1], xmin |-> n, xmax |-> x] :
      k \in SkewKeys, n \in 1..MaxStorageId, x \in (1..MaxStorageId) \cup {Null} }

\* storage.insert(row); the call is recorded with the number of versions the
\* key had before it
storageInsertCall(row) ==
  /\ CountRows(storageInsert(data, row)) <= MaxStorageRows
  /\ data' = storageInsert(data, row)
  /\ lastOp' = Call("storage.insert", row, NewSnapshot(1), 0,
                    Len(getAllVersions(data, row.key)))
  /\ UNCHANGED <<nextTxnId, activeTxns, committed, aborted, ended, metrics>>

NextStorage == \E row \in StorageRows : storageInsertCall(row)

SpecStorage == Init /\ [][NextStorage]_vars

\* ------------------------------------------- commit, statement by statement
\* DatabaseService.commit followed through its statements.  The call is
\* synchronous: while it runs, no other call of the service starts.  lastOp
\* holds the position inside the call: step statements of CommitOrder are done.

\* begin() is called at most MaxStepTxn times by this client
MaxStepTxn == 2
\* versions held at once by this client: stored rows plus buffered rows
MaxStepRows == 4

\* a variant of CommitOrder that collects before the transaction leaves the active table
CommitOrderCollectingFirst ==
  <<"storage.insert", "markCommitted", "garbageCollect", "txnManager.commit">>

\* the statements of a commit that found no conflict, in program order
CommitOrder ==
  <<"storage.insert", "markCommitted", "txnManager.commit", "garbageCollect">>

\* the record of a commit that has executed step statements of CommitOrder
CommitAt(txn, step, collected) ==
  [op |-> "commit", txn |-> txn, key |-> NoKey, err |-> "none",
   collected |-> collected, step |-> step]

\* a commit is between two of its statements
InCommit == "step" \in DOMAIN lastOp /\ lastOp.step < Len(CommitOrder)

\* const conflict = detectConflict(txn); if (conflict) {abort; throw}
commitStart(t) ==
  LET txn == activeTxns[t]
  IN IF detectConflict(txn) # NoKey THEN commit(t)
     ELSE /\ lastOp' = CommitAt(txn, 0, 0)
          /\ UNCHANGED <<nextTxnId, activeTxns, committed, aborted, data>>

\* the next statement of the commit in progress
commitStep ==
  /\ InCommit
  /\ LET txn == lastOp.txn
         statement == CommitOrder[lastOp.step + 1]
     IN CASE statement = "storage.insert" ->
               /\ data' = ApplyWrites(data, FlattenRows(txn.writeSet))
               /\ lastOp' = CommitAt(txn, lastOp.step + 1, 0)
               /\ UNCHANGED <<activeTxns, committed>>
          [] statement = "markCommitted" ->
               /\ committed' = committed \cup {txn.id}
               /\ lastOp' = CommitAt(txn, lastOp.step + 1, 0)
               /\ UNCHANGED <<activeTxns, data>>
          [] statement = "txnManager.commit" ->
               /\ activeTxns' = Without(activeTxns, txn.id)
               /\ lastOp' = CommitAt(txn, lastOp.step + 1, 0)
               /\ UNCHANGED <<committed, data>>
          [] statement = "garbageCollect" ->
               /\ data' = storageGarbageCollect(data, getGlobalOldestXmin(activeTxns, nextTxnId))
               /\ lastOp' = CommitAt(txn, lastOp.step + 1, CountRows(data) - CountRows(data'))
               /\ UNCHANGED <<activeTxns, committed>>
  /\ UNCHANGED <<nextTxnId, aborted>>

\* the step stays within the bounds of this client
WithinStepBounds == nextTxnId' <= MaxStepTxn + 1 /\ TotalRows' <= MaxStepRows

NextCommit ==
  \/ ~InCommit /\ begin /\ UNCHANGED <<ended, metrics>> /\ WithinStepBounds
  \/ \E t \in DOMAIN activeTxns, k \in SkewKeys :
       \E d \in InsertInputs(t, Buffered(t)) :
         ~InCommit /\ insert(t, k, d) /\ UNCHANGED <<ended, metrics>> /\ WithinStepBounds
  \/ \E t \in DOMAIN activeTxns, k \in SkewKeys :
       \E d \in UpdateInputs(t, Buffered(t)) :
         ~InCommit /\ update(t, k, d) /\ UNCHANGED <<ended, metrics>> /\ WithinStepBounds
  \/ \E t \in DOMAIN activeTxns, k \in SkewKeys :
       ~InCommit /\ delete(t, k) /\ UNCHANGED <<ended, metrics>> /\ WithinStepBounds
  \/ \E t \in DOMAIN activeTxns, keys \in SkewSelectInputs :
       ~InCommit /\ select(t, keys) /\ UNCHANGED <<ended, metrics>>
  \/ \E t \in DOMAIN activeTxns : ~InCommit /\ commitStart(t) /\ UNCHANGED <<ended, metrics>>
  \/ commitStep /\ UNCHANGED <<ended, metrics>>
  \/ \E t \in DOMAIN activeTxns : ~InCommit /\ abort(t) /\ UNCHANGED <<ended, metrics>>
  \/ ~InCommit /\ garbageCollect /\ UNCHANGED <<ended, metrics>>

SpecCommit == Init /\ [][NextCommit]_vars

\* ------------------------------------------------------------ the metrics
\* DatabaseService with the dbMetrics registry it updates in begin, commit
\* and abort: db_transactions_total, db_transactions_committed_total,
\* db_transactions_aborted_total and the gauge db_active_transactions.  The
\* histogram of durations and the memory gauge hold measurements of the
\* machine and are left out.

\* begin() is called at most MaxMeterTxn times by the metered client
MaxMeterTxn == 3
\* versions held at once by the metered client: stored rows plus buffered rows
MaxMeterRows == 3

\* counter.inc() and gauge.inc() / gauge.dec(), n times
Inc(m, name, n) == [m EXCEPT ![name] = @ + n]

\* begin(): transactionsTotal.inc(); activeTransactions.inc()
beginMetered ==
  /\ begin
  /\ metrics' = Inc(Inc(metrics, "transactionsTotal", 1), "activeTransactions", 1)

\* commit(): on a conflict transactionsAborted.inc() and
\* activeTransactions.dec(), then this.abort(txn), which does both again;
\* otherwise transactionsCommitted.inc() and activeTransactions.dec()
commitMetered(t) ==
  /\ commit(t)
  /\ metrics' = IF detectConflict(activeTxns[t]) # NoKey
                THEN Inc(Inc(Inc(Inc(metrics, "transactionsAborted", 1), "activeTransactions", -1),
                             "transactionsAborted", 1), "activeTransactions", -1)
                ELSE Inc(Inc(metrics, "transactionsCommitted", 1), "activeTransactions", -1)

\* abort(): transactionsAborted.inc(); activeTransactions.dec()
abortMetered(t) ==
  /\ abort(t)
  /\ metrics' = Inc(Inc(metrics, "transactionsAborted", 1), "activeTransactions", -1)

\* the step stays within the bounds of the metered client
WithinMeterBounds == nextTxnId' <= MaxMeterTxn + 1 /\ TotalRows' <= MaxMeterRows

NextMetrics ==
  \/ beginMetered /\ UNCHANGED ended /\ WithinMeterBounds
  \/ \E t \in DOMAIN activeTxns, k \in Keys :
       \E d \in InsertInputs(t, Buffered(t)) :
         insert(t, k, d) /\ UNCHANGED <<ended, metrics>> /\ WithinMeterBounds
  \/ \E t \in DOMAIN activeTxns, k \in Keys :
       \E d \in UpdateInputs(t, Buffered(t)) :
         update(t, k, d) /\ UNCHANGED <<ended, metrics>> /\ WithinMeterBounds
  \/ \E t \in DOMAIN activeTxns, k \in Keys :
       delete(t, k) /\ UNCHANGED <<ended, metrics>> /\ WithinMeterBounds
  \/ \E t \in DOMAIN activeTxns, keys \in SelectInputs :
       select(t, keys) /\ UNCHANGED <<ended, metrics>>
  \/ \E t \in DOMAIN activeTxns : commitMetered(t) /\ UNCHANGED ended
  \/ \E t \in DOMAIN activeTxns : abortMetered(t) /\ UNCHANGED ended
  \/ garbageCollect /\ UNCHANGED <<ended, metrics>>

SpecMetrics == Init /\ [][NextMetrics]_vars

\* ------------------------------------------------------------------ claims
Active == DOMAIN activeTxns

\* the stored versions of key k
Versions(k) == getAllVersions(data, k)
StoredRows(k) == { Versions(k)[i] : i \in 1..Len(Versions(k)) }

\* c had not committed when txn began, and has committed since
CommittedSince(txn, c) == c \in committed /\ c \notin txn.committedAtBegin /\ c # txn.id

\* C1: while t stays active, select(t, [k]) returns the same result after every
\* step of the engine (begin, writes, commits, aborts and GC passes of others).
C1_RepeatableRead ==
  [][\A t \in Active \cap DOMAIN activeTxns' : \A k \in Keys :
       selectResult(t, <<k>>)' = selectResult(t, <<k>>)]_vars

\* the rows txn has buffered for key k
BufferedRows(txn, k) == IF MapHas(txn.writeSet, k) THEN MapGet(txn.writeSet, k) ELSE <<>>

\* txn has buffered an update of k: a tombstone of the version it saw, then its own version
UpdatedIn(txn, k) ==
  LET rows == BufferedRows(txn, k)
  IN \E i \in 1..(Len(rows) - 1) :
       /\ rows[i].xmax = txn.id /\ rows[i].xmin # txn.id
       /\ rows[i + 1].xmin = txn.id /\ rows[i + 1].xmax = Null

\* the store holds what a committed update of k by c leaves: c's tombstone and c's version
UpdateStored(c, k) ==
  /\ \E r \in StoredRows(k) : r.xmax = c
  /\ \E r \in StoredRows(k) : r.xmin = c

\* no stored version carries the id t
NoRowOf(t) == \A k \in Keys : \A r \in StoredRows(k) : r.xmin # t /\ r.xmax # t

\* t2 is active and has updated k, and t1, concurrent with t2, has updated k and committed
LoserCase(txn, t1, k) ==
  /\ CommittedSince(txn, t1)
  /\ UpdatedIn(txn, k)
  /\ UpdateStored(t1, k)

\* C2: when t1 and t2 are concurrent, both updated key k and t1 has committed,
\* commit(t2) throws a write-write conflict, t2 ends aborted and none of its
\* rows is in the store.
C2_LoserAborts ==
  [][\A t2 \in Active :
       (/\ lastOp'.op = "commit" /\ lastOp'.txn = activeTxns[t2]
        /\ \E k \in Keys, t1 \in committed : LoserCase(activeTxns[t2], t1, k))
       => (/\ lastOp'.err = "WriteWriteConflict"
           /\ t2 \in aborted' /\ t2 \notin committed' /\ t2 \notin DOMAIN activeTxns'
           /\ data' = data
           /\ NoRowOf(t2)')]_vars

C2_Witness ==
  /\ lastOp.op = "commit" /\ lastOp.err = "WriteWriteConflict"
  /\ lastOp.txn.id \in aborted
  /\ \E k \in Keys, t1 \in committed : LoserCase(lastOp.txn, t1, k)

WriteKeys(txn) == { txn.writeSet[i].key : i \in 1..Len(txn.writeSet) }

\* the store holds a version that committed transaction c stamped on key k
WriteStored(c, k) == \E r \in StoredRows(k) : r.xmin = c \/ r.xmax = c

\* the step is commit(t) of the active transaction t
CommitStep(t) == lastOp'.op = "commit" /\ lastOp'.txn = activeTxns[t]

\* C3: when t2 has written key k (insert, update or delete) and a transaction
\* concurrent with t2 has committed a write of k, commit(t2) fails with a
\* write-write conflict and t2 is aborted.
C3_FirstCommitterWins ==
  [][\A t2 \in Active :
       (/\ CommitStep(t2)
        /\ \E k \in WriteKeys(activeTxns[t2]), t1 \in committed :
             CommittedSince(activeTxns[t2], t1) /\ WriteStored(t1, k))
       => (lastOp'.err = "WriteWriteConflict" /\ t2 \in aborted')]_vars

\* no transaction that committed after txn began has a version of k in the store
NoWriteSince(txn, k) ==
  \A c \in committed : CommittedSince(txn, c) => ~WriteStored(c, k)

\* C4: when active t1 and t2 have both updated key k (and t1 nothing else) and
\* nobody has committed a write of k since either began, commit(t1) succeeds.
C4_WinnerCommits ==
  [][\A t1 \in Active :
       (/\ CommitStep(t1)
        /\ \E k \in Keys, t2 \in Active \ {t1} :
             /\ UpdatedIn(activeTxns[t1], k) /\ UpdatedIn(activeTxns[t2], k)
             /\ WriteKeys(activeTxns[t1]) = {k}
             /\ NoWriteSince(activeTxns[t1], k) /\ NoWriteSince(activeTxns[t2], k))
       => (lastOp'.err = "none" /\ t1 \in committed')]_vars

\* C5: commit(t) fails with a write-write conflict only if a transaction that
\* committed after t began has written a key of t's write set.
C5_NoSpuriousConflict ==
  [][\A t \in Active :
       (CommitStep(t) /\ lastOp'.err = "WriteWriteConflict")
       => \E k \in WriteKeys(activeTxns[t]), c \in committed :
            CommittedSince(activeTxns[t], c) /\ WriteStored(c, k)]_vars

\* the version select picks for active transaction t and key k, as a set (empty if none)
Selected(t, k) ==
  LET index == FirstVisible(Versions(k), activeTxns[t].snapshot)
  IN IF index = 0 THEN {} ELSE { Versions(k)[index] }

C7_OwnWrites ==
  lastOp.op = "insert" =>
    LET t == lastOp.txn.id
        rows == BufferedRows(activeTxns[t], lastOp.key)
        own == Flatten(rows[Len(rows)])
        result == selectResult(t, <<lastOp.key>>)
    IN \E i \in 1..Len(result) : result[i] = own

\* C8: no version stamped by an aborted transaction, as creator or as deleter,
\* is in the store, so no select of any transaction can depend on it.
C8_AbortInvisible == \A t \in aborted : NoRowOf(t)

\* a transaction with buffered writes has been aborted by abort(t), and a
\* transaction begun later is active
C8_Witness ==
  /\ lastOp.op = "abort" /\ lastOp.txn.writeSet # <<>>
  /\ lastOp.txn.id \in aborted
  /\ \E t2 \in Active : t2 > lastOp.txn.id

\* the step is a garbage-collection pass: garbageCollect(), or a successful commit
GCPass == lastOp'.op = "garbageCollect" \/ (lastOp'.op = "commit" /\ lastOp'.err = "none")

\* the store the pass sweeps: the store itself, or the store with the
\* committing transaction's rows applied.  The pass runs after the committer
\* is marked committed, so visibility around it is read in the state the step
\* leads to.
SweptStore ==
  IF lastOp'.op = "commit"
  THEN ApplyWrites(data, FlattenRows(lastOp'.txn.writeSet))
  ELSE data

\* the versions of key k in store that the snapshot sees
VisibleRows(store, snapshot, k) ==
  LET versions == getAllVersions(store, k)
  IN { versions[i] : i \in { j \in 1..Len(versions) : isVisible(versions[j], snapshot) } }

\* C9: a GC pass that removes versions keeps every version visible to a
\* transaction that is still active, and select(t, [k]) is the same before
\* and after the pass.  (A pass that removes nothing leaves the store as it was.)
C9_GCSound ==
  [][GCPass =>
       \A swept \in {SweptStore} :
         swept # data' =>
           \A t \in DOMAIN activeTxns' : \A k \in Keys :
             \A snapshot \in {activeTxns'[t].snapshot} :
               (/\ VisibleRows(swept, snapshot, k) \subseteq VisibleRows(data, snapshot, k)
                /\ SelectRows(swept, snapshot, <<k>>) = SelectRows(data, snapshot, <<k>>))']_vars

\* a pass has removed versions while a transaction that sees a version is active
C9_Witness ==
  /\ lastOp.op \in {"garbageCollect", "commit"} /\ lastOp.collected > 0
  /\ \E t \in Active, k \in Keys : Selected(t, k) # {}

\* the last write txn buffered for k is an update
LastWriteIsUpdate(txn, k) ==
  LET rows == BufferedRows(txn, k)
      n == Len(rows)
  IN /\ n >= 2
     /\ rows[n - 1].xmax = txn.id /\ rows[n - 1].xmin # txn.id
     /\ rows[n].xmin = txn.id /\ rows[n].xmax = Null

\* C10: right after a transaction whose last write of k is an update commits,
\* a transaction that begins gets from select([k]) exactly the record of that
\* last update.
C10_CommittedUpdateSeen ==
  (lastOp.op = "commit" /\ lastOp.err = "none") =>
    \A k \in Keys :
      LastWriteIsUpdate(lastOp.txn, k) =>
        LET rows == BufferedRows(lastOp.txn, k)
        IN SelectRows(data, NewSnapshot(nextTxnId), <<k>>) = << Flatten(rows[Len(rows)]) >>

\* the last write txn buffered for k is a delete: a tombstone stamped by txn
LastWriteIsDelete(txn, k) ==
  LET rows == BufferedRows(txn, k)
  IN rows # <<>> /\ rows[Len(rows)].xmax = txn.id

\* C11: when a transaction whose last write of k is a delete commits, a
\* transaction that begins right after gets no record for k, and every
\* transaction that was active keeps the result it had for k.
C11_CommittedDeleteSeen ==
  [][\A t \in Active : \A k \in Keys :
       (CommitStep(t) /\ lastOp'.err = "none" /\ LastWriteIsDelete(activeTxns[t], k))
       => /\ SelectRows(data, NewSnapshot(nextTxnId), <<k>>)' = <<>>
          /\ \A r \in DOMAIN activeTxns' :
               selectResult(r, <<k>>)' = selectResult(r, <<k>>)]_vars

\* C12: when commit(t) detects a conflict, t is marked aborted and not
\* committed, leaves the active table, the store is left as it was (no row
\* applied, no GC pass) and the conflict is raised.
C12_ConflictAborts ==
  [][\A t \in Active :
       (CommitStep(t) /\ detectConflict(activeTxns[t]) # NoKey)
       => /\ t \in aborted' /\ t \notin committed'
          /\ t \notin DOMAIN activeTxns'
          /\ data' = data
          /\ lastOp'.err = "WriteWriteConflict" /\ lastOp'.key = detectConflict(activeTxns[t])
          /\ lastOp'.collected = 0]_vars

\* a commit has failed on a conflict while its buffer held rows and the store
\* held versions a GC pass would have removed
C12_Witness ==
  /\ lastOp.op = "commit" /\ lastOp.err = "WriteWriteConflict"
  /\ lastOp.txn.writeSet # <<>>
  /\ lastOp.txn.id \in aborted
  /\ storageGarbageCollect(data, getGlobalOldestXmin(activeTxns, nextTxnId)) # data

\* the step is update(t, k, _) or delete(t, k) of the active transaction t
WriteAttempt(t, k) ==
  /\ lastOp'.op \in {"update", "delete"}
  /\ lastOp'.txn = activeTxns[t] /\ lastOp'.key = k

\* C13: update and delete fail with 'not found' when no version is stored
\* under the key and with 'not visible' when versions exist and the snapshot
\* sees none; a failed call leaves the write buffer, the store, the registry
\* and the active table as they were, and the transaction active.
C13_FailedWriteChangesNothing ==
  [][\A t \in Active : \A k \in Keys :
       WriteAttempt(t, k) =>
         /\ (Versions(k) = <<>>) = (lastOp'.err = "KeyNotFound")
         /\ (Versions(k) # <<>> /\ Selected(t, k) = {}) = (lastOp'.err = "KeyNotVisible")
         /\ lastOp'.err # "none" =>
              /\ UNCHANGED <<activeTxns, data, committed, aborted, nextTxnId>>
              /\ t \in DOMAIN activeTxns']_vars

\* a transaction that had buffered writes got 'not visible' and is still active
C13_Witness ==
  /\ lastOp.op \in {"update", "delete"} /\ lastOp.err = "KeyNotVisible"
  /\ lastOp.txn.writeSet # <<>>
  /\ lastOp.txn.id \in Active /\ activeTxns[lastOp.txn.id] = lastOp.txn

\* the step is a call of the service on the object of a transaction that had
\* committed or aborted
CallOnEnded == lastOp'.txn.id \in DOMAIN ended

\* C14: a call on a transaction that has committed or aborted leaves the
\* store, the commit registry and the active table as they were.
C14_TerminalIsFinal ==
  [][CallOnEnded => UNCHANGED <<data, committed, aborted, activeTxns>>]_vars

\* C15: no transaction id is both in the committed set and in the aborted set.
C15_RegistryDisjoint == committed \cap aborted = {}

\* commit(txn) would find a conflict
Conflicts(txn) == detectConflict(txn) # NoKey

\* C16: a commit fails only on a key of the committer's write buffer; a select
\* changes no transaction's commit outcome; and the commit of t1 does not
\* change whether commit(t2) finds a conflict when the write-key sets of t1
\* and t2 are disjoint.
C16_WriteSkewAdmitted ==
  [][/\ \A t \in Active :
          (CommitStep(t) /\ lastOp'.err = "WriteWriteConflict")
          => lastOp'.key \in WriteKeys(activeTxns[t])
     /\ lastOp'.op = "select" =>
          \A t \in Active : Conflicts(activeTxns[t])' = Conflicts(activeTxns[t])
     /\ \A t1 \in Active : \A t2 \in Active \ {t1} :
          (CommitStep(t1) /\ WriteKeys(activeTxns[t1]) \cap WriteKeys(activeTxns[t2]) = {})
          => Conflicts(activeTxns[t2])' = Conflicts(activeTxns[t2])]_vars

\* write skew: t2 has just committed a write of one key while its snapshot
\* does not see what a concurrent transaction committed on the other key
C16_Witness ==
  /\ lastOp.op = "commit" /\ lastOp.err = "none" /\ lastOp.txn.id \in committed
  /\ \E k1 \in SkewKeys, k2 \in SkewKeys, t1 \in committed :
       /\ k1 # k2
       /\ WriteKeys(lastOp.txn) = {k2}
       /\ CommittedSince(lastOp.txn, t1)
       /\ \E r \in { getAllVersions(data, k1)[i] : i \in 1..Len(getAllVersions(data, k1)) } :
            r.xmin = t1 \/ r.xmax = t1
       /\ SelectRows(data, lastOp.txn.snapshot, <<k1>>)
            # SelectRows(data, NewSnapshot(nextTxnId), <<k1>>)

\* the step is begin(), and lastOp'.txn is the transaction it returns
BeginStep == lastOp'.op = "begin"

\* C17: the active set of the snapshot begin() builds is exactly the set of
\* earlier transactions that have neither committed nor aborted when begin()
\* is called.
C17_SnapshotActiveSet ==
  [][BeginStep =>
       lastOp'.txn.snapshot.activeTxns =
         { x \in 1..(lastOp'.txn.id - 1) : x \notin committed /\ x \notin aborted }]_vars

\* begin() has returned a transaction while, of the earlier ones, one was
\* active, one had committed and one had aborted
C17_Witness ==
  /\ lastOp.op = "begin"
  /\ lastOp.txn.snapshot.activeTxns # {}
  /\ \E c \in committed, a \in aborted : c < lastOp.txn.id /\ a < lastOp.txn.id

\* the invariants of one snapshot
SnapshotOk(txn) ==
  LET s == txn.snapshot
  IN /\ s.myTxnId = txn.id /\ s.xmax = txn.id
     /\ txn.id \notin s.activeTxns
     /\ \A x \in s.activeTxns : x < s.xmax
     /\ s.xmin = (IF s.activeTxns # {} THEN Min(s.activeTxns) ELSE s.xmax)
     /\ s.xmin <= s.xmax

IdsInUse == Active \cup committed \cup aborted

\* C19: the first begin() returns id 1, every begin() returns the id after the
\* one returned by the begin() before it, larger than every id in use, and no
\* other operation moves the counter.
C19_TidMonotone ==
  [][/\ lastOp.op = "new" => nextTxnId = 1
     /\ IF BeginStep
        THEN /\ lastOp'.txn.id = nextTxnId
             /\ nextTxnId' = nextTxnId + 1
             /\ \A x \in IdsInUse : x < lastOp'.txn.id
             /\ lastOp'.txn.id \in DOMAIN activeTxns'
        ELSE nextTxnId' = nextTxnId]_vars

\* the third begin() has returned after a commit and an abort
C19_Witness ==
  /\ lastOp.op = "begin" /\ lastOp.txn.id = 3
  /\ committed # {} /\ aborted # {}

\* C20: the snapshot begin() builds has xmax = the transaction's id + 1, the
\* next id to be assigned.
C20_XmaxIsNextId ==
  lastOp.op = "begin" =>
    /\ lastOp.txn.snapshot.xmax = lastOp.txn.id + 1
    /\ lastOp.txn.snapshot.xmax = nextTxnId

\* txnVisible of the claim: before the snapshot's bound, not active at the
\* snapshot, and committed
TxnVisible(tid, snapshot) ==
  tid < snapshot.xmax /\ tid \notin snapshot.activeTxns /\ tid \in committed

C22_GCPredicate ==
  lastOp.op = "canGarbageCollect" =>
    /\ lastOp.result =
         (lastOp.row.xmax # Null /\ lastOp.row.xmin < lastOp.horizon
                                 /\ lastOp.row.xmax < lastOp.horizon)
    /\ (lastOp.row.xmax = Null \/ lastOp.row.xmin >= lastOp.horizon
                               \/ lastOp.row.xmax >= lastOp.horizon) => ~lastOp.result

\* canGarbageCollect has returned true
C22_Witness ==
  /\ lastOp.op = "canGarbageCollect" /\ lastOp.result
  /\ lastOp.row.xmax # Null /\ lastOp.row.xmin < lastOp.row.xmax

\* what globalOldestXmin() returns in this state
Horizon == getGlobalOldestXmin(activeTxns, nextTxnId)

C24_StoreFrame ==
  [][/\ data' # data => GCPass
     /\ \A t \in Active :
          (CommitStep(t) /\ lastOp'.err = "none") =>
            \A written \in {ApplyWrites(data, FlattenRows(activeTxns[t].writeSet))} :
              /\ CountRows(data') = CountRows(written) - lastOp'.collected
              /\ \A k \in Keys : \A i \in 1..Len(getAllVersions(data', k)) :
                   \E j \in 1..Len(getAllVersions(written, k)) :
                     getAllVersions(data', k)[i] = getAllVersions(written, k)[j]]_vars

\* a delete has been buffered and the version it marks is still live in the store
C24_Witness ==
  /\ lastOp.op = "delete" /\ lastOp.err = "none"
  /\ lastOp.txn.id \in Active
  /\ \E r \in StoredRows(lastOp.key) :
       /\ r.xmax = Null
       /\ \E i \in 1..Len(BufferedRows(activeTxns[lastOp.txn.id], lastOp.key)) :
            LET b == BufferedRows(activeTxns[lastOp.txn.id], lastOp.key)[i]
            IN b.xmin = r.xmin /\ b.xmax = lastOp.txn.id

\* the tombstones txn buffered for k: the versions of others it deleted (or replaced)
Tombstones(txn, k) ==
  { BufferedRows(txn, k)[i] : i \in { j \in 1..Len(BufferedRows(txn, k)) :
      /\ BufferedRows(txn, k)[j].xmax = txn.id
      /\ BufferedRows(txn, k)[j].xmin # txn.id } }

\* the stored versions a tombstone of txn marks
Marked(b, k) == { r \in StoredRows(k) : r.xmin = b.xmin /\ r.data = b.data }

C26_DeletionAfterCreation ==
  \A k \in Keys : \A r \in StoredRows(k) : r.xmax # Null => r.xmax >= r.xmin

\* a tombstone written by a later transaction than the creator is in the store
C26_Witness ==
  /\ lastOp.op = "commit" /\ lastOp.err = "none"
  /\ \E k \in Keys : \E r \in StoredRows(k) :
       r.xmax = lastOp.txn.id /\ r.xmax > r.xmin

\* the positions of the stored versions of key k created by transaction x
CreatedBy(k, x) == { i \in 1..Len(Versions(k)) : Versions(k)[i].xmin = x }

\* C27: for each key and each creator id the store holds at most two versions
\* with that (key, xmin) pair.
C27_AtMostTwoPerCreator ==
  \A k \in Keys : \A x \in 1..nextTxnId : Cardinality(CreatedBy(k, x)) <= 2

\* the transaction ids stamped on the stored versions of key k
StoredStamps(k) ==
  { r.xmin : r \in StoredRows(k) } \cup { r.xmax : r \in { s \in StoredRows(k) : s.xmax # Null } }

\* C28: every stored version has xmin in the committed set and xmax absent or
\* in the committed set; no stored version is stamped by a transaction that is
\* in progress or that aborted without committing.
C28_StoreHoldsCommittedWork ==
  \A k \in Keys :
    /\ \A r \in StoredRows(k) :
         r.xmin \in committed /\ (r.xmax = Null \/ r.xmax \in committed)
    /\ StoredStamps(k) \cap Active = {}
    /\ StoredStamps(k) \cap (aborted \ committed) = {}

\* the store holds a live version and a tombstone while one transaction holds
\* buffered writes and another has aborted after buffering writes
C28_Witness ==
  /\ lastOp.op = "abort" /\ lastOp.txn.writeSet # <<>>
  /\ \E t \in Active : Buffered(t) > 0
  /\ \E k \in Keys : \E r, s \in StoredRows(k) : r.xmax = Null /\ s.xmax # Null

\* the positions of the stored versions of key k that snapshot sees
VisibleAt(k, snapshot) == { i \in 1..Len(Versions(k)) : isVisible(Versions(k)[i], snapshot) }

\* C29: for every active transaction's snapshot and every key, at most one
\* stored version of the key is visible.
C29_UniqueVisibleVersion ==
  \A t \in Active : \A k \in Keys :
    Cardinality(VisibleAt(k, activeTxns[t].snapshot)) <= 1

\* the positions in versions of the entries that row, a tombstone, may replace
LiveOf(versions, row) ==
  { i \in 1..Len(versions) : versions[i].xmin = row.xmin /\ versions[i].xmax = Null }

\* C30: an insert of a row with xmax set replaces the first stored entry of the
\* row's key that has the same xmin and no xmax, and leaves the length and
\* every other entry as they were; with no such entry, or with xmax absent,
\* the row is appended at the end of the key's sequence.  Other keys keep
\* their sequences.
C30_ReplaceInPlace ==
  [][lastOp'.op = "storage.insert" =>
       \A row \in {lastOp'.row} :
         LET old == getAllVersions(data, row.key)
             new == getAllVersions(data', row.key)
             live == LiveOf(old, row)
         IN /\ IF row.xmax # Null /\ live # {}
               THEN /\ Len(new) = Len(old)
                    /\ \A i \in 1..Len(old) :
                         new[i] = IF i = Min(live) THEN row ELSE old[i]
               ELSE new = Append(old, row)
            /\ \A k \in SkewKeys \ {row.key} :
                 getAllVersions(data', k) = getAllVersions(data, k)]_vars

\* a tombstone has replaced the second entry of its key, the first entry
\* having the same xmin and an xmax of its own
C30_Witness ==
  /\ lastOp.op = "storage.insert"
  /\ lastOp.row.xmax # Null
  /\ lastOp.result = 2
  /\ \E first \in StorageRows :
       /\ first.xmin = lastOp.row.xmin /\ first.xmax # Null /\ first # lastOp.row
       /\ getAllVersions(data, lastOp.row.key) = <<first, lastOp.row>>

\* store.append(row) on one key's sequence
AppendTo(versions, row) ==
  IF row.xmax # Null /\ LiveOf(versions, row) # {}
  THEN [versions EXCEPT ![Min(LiveOf(versions, row))] = row]
  ELSE Append(versions, row)

RECURSIVE AppendAll(_, _)
\* the rows appended to one key's sequence, first to last
AppendAll(versions, rows) ==
  IF rows = <<>> THEN versions ELSE AppendAll(AppendTo(versions, Head(rows)), Tail(rows))

\* what a pass with the given horizon leaves of one key's sequence
Kept(versions, horizon) ==
  SeqFilter(versions, [i \in 1..Len(versions) |->
                         ~(/\ versions[i].xmax # Null
                           /\ versions[i].xmin < horizon
                           /\ versions[i].xmax < horizon)])

\* the least snapshot.xmin of the transactions in active other than id, or
\* the next id when there is none
HorizonWithout(active, id) ==
  IF DOMAIN active \ {id} = {} THEN nextTxnId
  ELSE Min({ active[u].snapshot.xmin : u \in DOMAIN active \ {id} })

\* the commit in progress has just executed its n-th statement
CommitReached(n) == "step" \in DOMAIN lastOp' /\ lastOp'.step = n

\* C31: a commit that found no conflict first applies the buffered rows to
\* the store, per key in buffer order, while t is still active and not yet
\* committed; then marks t committed; then removes t from the active table;
\* and only then sweeps the store, with the horizon of the transactions that
\* remain active.
C31_CommitStepOrder ==
  [][\A txn \in {lastOp'.txn} :
       /\ CommitReached(1) =>
            /\ \A k \in SkewKeys :
                 getAllVersions(data', k) = AppendAll(getAllVersions(data, k), BufferedRows(txn, k))
            /\ txn.id \notin committed' /\ txn.id \in DOMAIN activeTxns'
       /\ CommitReached(2) =>
            /\ txn.id \notin committed /\ committed' = committed \cup {txn.id}
            /\ txn.id \in DOMAIN activeTxns' /\ data' = data
       /\ CommitReached(3) =>
            /\ txn.id \in committed
            /\ txn.id \in DOMAIN activeTxns /\ txn.id \notin DOMAIN activeTxns'
            /\ data' = data
       /\ CommitReached(4) =>
            /\ txn.id \in committed /\ txn.id \notin DOMAIN activeTxns
            /\ \A k \in SkewKeys :
                 getAllVersions(data', k) =
                   Kept(getAllVersions(data, k), HorizonWithout(activeTxns, txn.id))]_vars

\* a commit has finished whose pass collected the committer's own tombstone,
\* which a horizon at or below the committer's snapshot would have kept
C31_Witness ==
  /\ "step" \in DOMAIN lastOp /\ lastOp.step = 4
  /\ lastOp.collected > 0
  /\ \E k \in SkewKeys :
       /\ \E i \in 1..Len(BufferedRows(lastOp.txn, k)) :
            BufferedRows(lastOp.txn, k)[i].xmax = lastOp.txn.id
       /\ \A i \in 1..Len(getAllVersions(data, k)) :
            getAllVersions(data, k)[i].xmax # lastOp.txn.id

\* the ids begin() has handed out
HandedOut == 1..(nextTxnId - 1)

\* C32: an id handed out by begin() is in the active table exactly when it is
\* in neither the committed nor the aborted set, and every id in the active
\* table is below the counter.
C32_ActiveTableAgrees ==
  /\ \A id \in HandedOut :
       (id \in DOMAIN activeTxns) <=> (id \notin committed /\ id \notin aborted)
  /\ \A id \in DOMAIN activeTxns : id < nextTxnId /\ activeTxns[id].id = id

\* a transaction has just ended while one is active, one has committed and
\* one has aborted
C32_Witness ==
  /\ lastOp.op \in {"commit", "abort"}
  /\ DOMAIN activeTxns # {} /\ committed # {} /\ aborted # {}
  /\ lastOp.txn.id \notin DOMAIN activeTxns

\* the error update(key) or delete(key) throws for a snapshot over a store
WriteOutcome(store, snapshot, k) ==
  IF getAllVersions(store, k) = <<>> THEN "KeyNotFound"
  ELSE IF FirstVisible(getAllVersions(store, k), snapshot) = 0 THEN "KeyNotVisible"
  ELSE "none"

\* the key detectConflict(txn) reports over a store, NoKey for none
ConflictIn(store, txn) ==
  LET keys == MapKeys(txn.writeSet)
      hits == { i \in 1..Len(keys) :
                  \E r \in { getAllVersions(store, keys[i])[j] :
                               j \in 1..Len(getAllVersions(store, keys[i])) } :
                    r.xmin # txn.id /\ r.xmin \in committed /\ r.xmin >= txn.snapshot.xmin }
  IN IF hits = {} THEN NoKey ELSE keys[Min(hits)]

\* C33: a GC pass is unobservable: for every transaction that is active after
\* the pass, and for the snapshot of a transaction that begins next, select
\* returns the same rows, update and delete fail or succeed with the same
\* error, and conflict detection reports the same, over the store the pass
\* swept and over the store it left.
C33_GCUnobservable ==
  [][GCPass =>
       \A swept \in {SweptStore} :
         swept # data' =>
           (/\ \A snapshot \in { activeTxns[t].snapshot : t \in DOMAIN activeTxns }
                                 \cup {NewSnapshot(nextTxnId)} :
                 \A k \in Keys :
                   /\ SelectRows(swept, snapshot, <<k>>) = SelectRows(data, snapshot, <<k>>)
                   /\ WriteOutcome(swept, snapshot, k) = WriteOutcome(data, snapshot, k)
            /\ \A t \in DOMAIN activeTxns :
                 ConflictIn(swept, activeTxns[t]) = ConflictIn(data, activeTxns[t]))']_vars

\* the documented rule: a pass removes the versions with xmax < globalOldestXmin
DocumentedRule(row, horizon) == row.xmax # Null /\ row.xmax < horizon

\* the values globalOldestXmin() can take
Horizons == 1..(MaxTxn + 1)

\* C34: for every stored version and every horizon value, canGarbageCollect
\* decides as the documented rule "xmax < globalOldestXmin" does.
C34_XminBoundRedundant ==
  \A k \in Keys : \A r \in StoredRows(k) : \A horizon \in Horizons :
    canGarbageCollect(r, horizon) = DocumentedRule(r, horizon)

\* the store holds a tombstone whose deleter is later than its creator and
\* lies below the counter: horizons at or below xmin, between the two stamps
\* and above both exist
C34_Witness ==
  \E k \in Keys : \E r \in StoredRows(k) :
    /\ r.xmax # Null /\ r.xmin < r.xmax /\ r.xmax < nextTxnId
    /\ canGarbageCollect(r, nextTxnId) /\ ~canGarbageCollect(r, r.xmax)

\* the positions of the listed keys that have a version the snapshot sees
Hits(keys, snapshot) == { i \in 1..Len(keys) : VisibleAt(keys[i], snapshot) # {} }

\* the n-th of those positions, in the order of the list
NthHit(keys, snapshot, n) ==
  CHOOSE i \in Hits(keys, snapshot) :
    Cardinality({ j \in Hits(keys, snapshot) : j < i }) = n - 1

\* C35: after select(t, keys) with listed keys, the result has one record for
\* each entry of the list whose key has a visible version and none for the
\* others, in the order of the list; each record carries the key and the
\* fields of the first version of the key, in insertion order, that
\* t.snapshot sees.
C35_SelectShape ==
  (lastOp.op = "select" /\ lastOp.key # NoKeys) =>
    \A keys \in {lastOp.key} : \A snapshot \in {lastOp.txn.snapshot} :
      \A result \in {selectResult(lastOp.txn.id, keys)} :
        /\ Len(result) = Cardinality(Hits(keys, snapshot))
        /\ \A n \in 1..Len(result) :
             \A k \in {keys[NthHit(keys, snapshot, n)]} :
               \A first \in {Versions(k)[Min(VisibleAt(k, snapshot))]} :
                 /\ result[n].key = k
                 /\ \A f \in Fields : result[n][f] = first.data[f]
                 /\ DOMAIN result[n] = Fields \cup {"key"}

\* select("k2", "k1") has returned two records, one of a key that has two
\* visible versions
C35_Witness ==
  /\ lastOp.op = "select"
  /\ lastOp.key = <<"k2", "k1">>
  /\ Len(selectResult(lastOp.txn.id, lastOp.key)) = 2
  /\ \E k \in SkewKeys : Cardinality(VisibleAt(k, lastOp.txn.snapshot)) = 2

\* C36: for every transaction that is active after a GC pass, conflict
\* detection reports the same over the store the pass swept and over the
\* store it left.
C36_GCKeepsConflicts ==
  [][GCPass =>
       \A swept \in {SweptStore} :
         swept # data' =>
           (\A t \in DOMAIN activeTxns :
              ConflictIn(swept, activeTxns[t]) = detectConflict(activeTxns[t]))']_vars

\* a pass has collected versions while an active transaction holds writes
\* that conflict with a stored version
C36_Witness ==
  /\ lastOp.op \in {"commit", "garbageCollect"} /\ lastOp.err = "none"
  /\ lastOp.collected > 0
  /\ \E t \in DOMAIN activeTxns :
       activeTxns[t].writeSet # <<>> /\ detectConflict(activeTxns[t]) # NoKey

\* C37: after a successful commit that leaves no transaction active, no
\* stored version has an xmax and no key of the store has an empty sequence.
C37_QuiescentStoreIsLive ==
  (lastOp.op = "commit" /\ lastOp.err = "none" /\ DOMAIN activeTxns = {}) =>
    /\ \A k \in Keys : \A r \in StoredRows(k) : r.xmax = Null
    /\ \A i \in 1..Len(data) : data[i].val # <<>>

\* the last transaction has committed an update: its pass collected the
\* tombstone and left the new version
C37_Witness ==
  /\ lastOp.op = "commit" /\ lastOp.err = "none" /\ DOMAIN activeTxns = {}
  /\ lastOp.collected > 0
  /\ \E k \in Keys : \E r \in StoredRows(k) : r.xmin = lastOp.txn.id

\* C38: no step lowers globalOldestXmin(), and its value, before and after
\* the step, is never greater than the id of an active transaction nor than
\* the next id to be assigned.
C38_HorizonMonotone ==
  [][\A before \in {Horizon} : \A after \in {Horizon'} :
       /\ after >= before
       /\ before <= nextTxnId /\ \A t \in DOMAIN activeTxns : before <= t
       /\ after <= nextTxnId' /\ \A t \in DOMAIN activeTxns' : after <= t]_vars

\* a transaction has ended and the horizon of the transactions still active
\* lies above the xmin of the snapshot it held
C38_Witness ==
  /\ lastOp.op \in {"commit", "abort"}
  /\ DOMAIN activeTxns # {}
  /\ lastOp.txn.id \notin DOMAIN activeTxns
  /\ Horizon > lastOp.txn.snapshot.xmin

\* C39: commit of a transaction whose write buffer is empty succeeds: it
\* throws nothing, and the transaction is committed and no longer active.
C39_ReadOnlyCommits ==
  (lastOp.op = "commit" /\ lastOp.txn.writeSet = <<>>) =>
    /\ lastOp.err = "none"
    /\ lastOp.txn.id \in committed
    /\ lastOp.txn.id \notin DOMAIN activeTxns

\* a transaction without writes has committed after a transaction that began
\* later than it committed a version that is in the store
C39_Witness ==
  /\ lastOp.op = "commit" /\ lastOp.txn.writeSet = <<>>
  /\ \E c \in committed :
       /\ c > lastOp.txn.id
       /\ \E k \in Keys : \E r \in StoredRows(k) : r.xmin = c

\* C40: the gauge db_active_transactions equals the number of transactions
\* in the active table, and the counters of committed and of aborted
\* transactions equal the numbers of transactions that committed and that
\* aborted: every transaction that has ended is counted once.
C40_MetricsAgree ==
  /\ metrics.activeTransactions = Cardinality(DOMAIN activeTxns)
  /\ metrics.transactionsCommitted = Cardinality(committed)
  /\ metrics.transactionsAborted = Cardinality(aborted)
  /\ metrics.transactionsTotal = nextTxnId - 1

====
